---- MODULE Spec2Model ----
(***************************************************************************)
(* A model of smonn/storage (src/index.ts): the instance returned by       *)
(* createInstance, its lazily opened IndexedDB connection, the six         *)
(* operations with their transaction / request listeners, close(), and the *)
(* async iterator.  One slot of `op` is one outstanding call; the engine's *)
(* events (open success / error, request success / error, transaction      *)
(* complete / error) are the actions that run the listeners the code       *)
(* registers.                                                              *)
(***************************************************************************)
EXTENDS Integers, Sequences, FiniteSets, TLC

\* Bounds of the model.
MaxOps == 2
MaxConns == 2

Slots == 1..MaxOps
ConnIds == 1..MaxConns
\* `let db: IDBDatabase | undefined`: 0 stands for undefined.
NoConn == 0

\* The key universe in the engine's ascending key order; "" is a valid key.
KeyOrder == <<"", "a", "b">>
Keys == {KeyOrder[i] : i \in 1..Len(KeyOrder)}
NoKey == "<none>"
Values == {"v1", "v2"}
\* JavaScript's undefined: what store.get yields for an unset key.
Absent == "undefined"

ReadKinds == {"getItem", "keys", "size"}
WriteKinds == {"setItem", "removeItem", "clear"}
Kinds == ReadKinds \cup WriteKinds

VARIABLES
    db,        \* the held connection reference (NoConn: undefined)
    conns,     \* engine: connection handle -> "open" | "none" (not open: never
               \* handed out, or closed and gone)
    table,     \* engine: the committed content of the object store
    op,        \* the outstanding calls, one per slot
    txnQueue,  \* engine: slots whose transaction is live, in creation order
    shadow,    \* the map a caller expects from the write promises resolved so far
    atClose,   \* the stored entries at the last close(), until a write commits
    allKeys,   \* iterator: [null, list], `let allKeys: IDBValidKey[] | null`
    index,     \* iterator: `let index = 0`
    itOut,     \* the [key, value] pairs next() has yielded so far
    itDone,    \* some next() has returned { done: true }
    options,   \* the argument of createInstance
    config,    \* `const config`: the merged configuration
    instance,  \* "none" | "created" | the message createInstance threw with
    request,   \* connect(): the open request and the arguments it was given
    stored,    \* engine: the database of the configured name: its version
               \* (0: it does not exist) and its object stores
    scope      \* the table names of the transaction opened on the connection

vars == <<db, conns, table, op, txnQueue, shadow, atClose, allKeys, index, itOut, itDone,
          options, config, instance, request, stored, scope>>
iterVars == <<allKeys, index, itOut, itDone>>
ghostVars == <<shadow, atClose>>
setupVars == <<options, config, instance, request, stored, scope>>
NoSnapshot == [valid |-> FALSE, entries |-> [k \in Keys |-> Absent]]

----------------------------------------------------------------------------
\* JavaScript values of the configuration: a property that is not given, the
\* value undefined, a string, or a number held in tenths (15 is 1.5).
NoValue == [type |-> "absent", str |-> "", tenths |-> 0]
Undefined == [type |-> "undefined", str |-> "", tenths |-> 0]
Str(s) == [type |-> "string", str |-> s, tenths |-> 0]
Num(t) == [type |-> "number", str |-> "", tenths |-> t]
Whole(n) == Num(10 * n)

Fields == {"databaseName", "databaseVersion", "tableName"}
TableNames == {"kv", "t"}

\* `export const defaultOptions`
defaultOptions ==
    [databaseName |-> Str("smonn_storage"), databaseVersion |-> Whole(1),
     tableName |-> Str("kv")]

\* Mutant of ObjectAssign: the defaults are assigned last and win.
ObjectAssignDefaultsLast(defaults, opts) ==
    [f \in Fields |-> IF defaults[f].type # "absent" THEN defaults[f] ELSE opts[f]]

\* `Object.assign({}, defaultOptions, options)`: every property the argument
\* has, undefined ones included, replaces the default.
ObjectAssign(defaults, opts) ==
    [f \in Fields |-> IF opts[f].type # "absent" THEN opts[f] ELSE defaults[f]]

\* `typeof x === "string" && x.length > 0`
NonEmptyString(v) == v.type = "string" /\ Len(v.str) > 0
\* `typeof x === "number" && x > 0`
PositiveNumber(v) == v.type = "number" /\ v.tenths > 0

\* The three invariant() calls of createInstance, in order: the message of
\* the TypeError thrown, or "ok".
Validate(cfg) ==
    IF ~NonEmptyString(cfg.databaseName) THEN "databaseName must be a string"
    ELSE IF ~PositiveNumber(cfg.databaseVersion) THEN "databaseVersion must be a number"
    ELSE IF ~NonEmptyString(cfg.tableName) THEN "tableName must be a string"
    ELSE "ok"

NoConfig == [f \in Fields |-> NoValue]
NoRequest == [state |-> "none", name |-> NoValue, version |-> NoValue, error |-> "none"]
NoDatabase == [version |-> 0, tables |-> [n \in TableNames |-> "none"]]
NoScope == {}

\* The state of `export const Storage = createInstance()` before its first
\* call, on an engine that has no database yet.
DefaultInstance ==
    /\ options = NoConfig
    /\ config = ObjectAssign(defaultOptions, NoConfig)
    /\ instance = "created"
    /\ request = NoRequest
    /\ stored = NoDatabase
    /\ scope = NoScope

----------------------------------------------------------------------------
\* Results of promises.
NoResult == [tag |-> "none", key |-> NoKey, value |-> Absent, keys |-> <<>>, count |-> 0]
VoidResult == [NoResult EXCEPT !.tag = "void"]
ValueResult(v) == [NoResult EXCEPT !.tag = "value", !.value = v]
KeysResult(ks) == [NoResult EXCEPT !.tag = "keys", !.keys = ks]
CountResult(n) == [NoResult EXCEPT !.tag = "count", !.count = n]
PairResult(k, v) == [NoResult EXCEPT !.tag = "pair", !.key = k, !.value = v]
DoneResult == [NoResult EXCEPT !.tag = "done"]

IdleOp ==
    [pc |-> "idle", kind |-> "none", via |-> "user", key |-> NoKey, val |-> Absent,
     txn |-> "none", promise |-> "none", error |-> "none",
     result |-> NoResult]

----------------------------------------------------------------------------
\* The engine's request primitives on the object store.
EmptyTable == [k \in Keys |-> Absent]
Present(tbl) == {k \in Keys : tbl[k] # Absent}
IsPresent(tbl, k) == tbl[k] # Absent
put(tbl, v, k) == [tbl EXCEPT ![k] = v]
get(tbl, k) == tbl[k]
delete(tbl, k) == [tbl EXCEPT ![k] = Absent]
getAllKeys(tbl) == SelectSeq(KeyOrder, LAMBDA k : tbl[k] # Absent)
count(tbl) == Cardinality(Present(tbl))

\* request.result of the one request an operation issues.
RequestResult(kind, key, tbl) ==
    CASE kind = "getItem" -> ValueResult(get(tbl, key))
      [] kind = "keys" -> KeysResult(getAllKeys(tbl))
      [] kind = "size" -> CountResult(count(tbl))
      [] OTHER -> VoidResult

\* Mutant of Commit: removeItem issues store.clear() instead of store.delete(key).
CommitRemoveClears(kind, key, val, tbl) ==
    CASE kind = "setItem" -> put(tbl, val, key)
      [] kind = "removeItem" -> EmptyTable
      [] kind = "clear" -> EmptyTable
      [] OTHER -> tbl

\* What the operation's request does to the store once its transaction commits.
Commit(kind, key, val, tbl) ==
    CASE kind = "setItem" -> put(tbl, val, key)
      [] kind = "removeItem" -> delete(tbl, key)
      [] kind = "clear" -> EmptyTable
      [] OTHER -> tbl

\* Mutant of ResolvesOnRequestSuccess: every operation resolves in its
\* request's success listener.
ResolvesOnAnyRequestSuccess(kind) == TRUE

\* Mutant of ResolvesOnTransactionComplete: removeItem registers no listener
\* for its transaction's complete.
ResolvesOnCompleteOfSetItemOnly(kind) == kind = "setItem"

\* Which listeners each operation registers.
ResolvesOnRequestSuccess(kind) == kind \in {"getItem", "clear", "keys", "size"}
ResolvesOnTransactionComplete(kind) == kind \in {"setItem", "removeItem"}
ListensTransactionError(kind) == kind \in {"setItem", "getItem", "removeItem", "keys", "size"}

\* Mutant of AssignAfterConnect: the reference read before the await is
\* the one stored.
AssignStaleReference(held, fresh) == held

\* `db = db ?? (await connect(config))`: the left operand was read before the
\* await, so the resumed assignment stores the fresh connection.
AssignAfterConnect(held, fresh) == fresh

\* `if (key)`: the empty string is falsy.
Truthy(key) == key # ""

----------------------------------------------------------------------------
\* The engine.  Every request emits success or error once.  A write's
\* transaction then emits complete (its change is committed) or error
\* (nothing is committed); after a request error the transaction aborts.  A
\* read's transaction has nothing to commit: once its request has emitted, no
\* listener of the operation can change the settled promise, so the
\* transaction ends in the same step.
\* Scheduling: a transaction runs once no transaction created before it on
\* the same store is live, unless both are read-only.
\* ModeAlwaysReadWrite is a mutant of Mode: every operation asks for
\* "readwrite".
ModeAlwaysReadWrite(kind) == "readwrite"
Mode(kind) == IF kind \in WriteKinds THEN "readwrite" ELSE "readonly"

PositionOf(t, queue) == CHOOSE i \in 1..Len(queue) : queue[i] = t

CanRun(t) ==
    /\ \E i \in 1..Len(txnQueue) : txnQueue[i] = t
    /\ \A i \in 1..(PositionOf(t, txnQueue) - 1) :
          /\ Mode(op[txnQueue[i]].kind) = "readonly"
          /\ Mode(op[t].kind) = "readonly"

Dequeue(t, queue) == SelectSeq(queue, LAMBDA u : u # t)

\* The connections open at the engine.
ConnsOpen == Cardinality({c \in ConnIds : conns[c] # "none"})
\* request.result of a successful open: a handle no open connection uses.
FreshConn == CHOOSE c \in ConnIds : conns[c] = "none" /\ \A d \in ConnIds : d < c => conns[d] # "none"
\* The open requests the engine has not answered yet.
OpensInFlight == Cardinality({t \in Slots : op[t].pc = "connecting"})

----------------------------------------------------------------------------
Init ==
    /\ db = NoConn
    /\ conns = [c \in ConnIds |-> "none"]
    /\ table = EmptyTable
    /\ op = [t \in Slots |-> IdleOp]
    /\ txnQueue = <<>>
    /\ shadow = EmptyTable
    /\ atClose = NoSnapshot
    /\ allKeys = [null |-> TRUE, list |-> <<>>]
    /\ index = 0
    /\ itOut = <<>>
    /\ itDone = FALSE
    /\ DefaultInstance

\* The synchronous start of an operation in slot t: with a connection held the
\* promise executor opens the transaction on db and issues the request at
\* once; otherwise connect() issues an open request and the call awaits it.
\* `queue` is the engine's queue the new transaction joins.
BeginOp(t, kind, key, val, via, queue) ==
    LET o == [IdleOp EXCEPT !.kind = kind, !.key = key, !.val = val, !.via = via,
                            !.promise = "pending"]
    IN  IF db # NoConn
        THEN /\ op' = [op EXCEPT ![t] = [o EXCEPT !.pc = "active", !.txn = "live"]]
             /\ txnQueue' = Append(queue, t)
        ELSE /\ OpensInFlight + ConnsOpen < MaxConns
             /\ op' = [op EXCEPT ![t] = [o EXCEPT !.pc = "connecting"]]
             /\ txnQueue' = queue

\* Slots are bookkeeping only: a new call takes the first free one.
FirstFree(t) == op[t].pc = "idle" /\ \A u \in Slots : u < t => op[u].pc # "idle"

\* A caller invokes setItem / getItem / removeItem / clear / keys / size.
Invoke(t, kind, key, val) ==
    /\ FirstFree(t)
    /\ BeginOp(t, kind, key, val, "user", txnQueue)
    /\ UNCHANGED <<db, conns, table, iterVars>>

\* The arguments a call of `kind` takes.
KeyArgs(kind, keys) == IF kind \in {"setItem", "getItem", "removeItem"} THEN keys ELSE {NoKey}
ValArgs(kind, vals) == IF kind = "setItem" THEN vals ELSE {Absent}

InvokeAny(t, keys, vals) ==
    \E kind \in Kinds : \E k \in KeyArgs(kind, keys) : \E v \in ValArgs(kind, vals) :
        Invoke(t, kind, k, v)

\* The open request of slot t succeeds: connect() resolves, the call resumes,
\* assigns db and runs its promise executor.
OpenSuccess(t) ==
    /\ op[t].pc = "connecting"
    /\ LET c == FreshConn
           held == AssignAfterConnect(db, c)
       IN  /\ conns' = [conns EXCEPT ![c] = "open"]
           /\ db' = held
           /\ IF held # NoConn
              THEN /\ op' = [op EXCEPT ![t] = [@ EXCEPT !.pc = "active", !.txn = "live"]]
                   /\ txnQueue' = Append(txnQueue, t)
              ELSE \* `invariant(db, "Database connection was closed")` throws
                   /\ op' = [op EXCEPT ![t] = [@ EXCEPT !.pc = "finished",
                                                         !.promise = "rejected",
                                                         !.error = "closed"]]
                   /\ UNCHANGED txnQueue
    /\ UNCHANGED <<table, iterVars>>

\* The open request of slot t fails: connect() rejects and so does the call.
OpenError(t) ==
    /\ op[t].pc = "connecting"
    /\ op' = [op EXCEPT ![t] = [@ EXCEPT !.pc = "finished", !.promise = "rejected",
                                          !.error = "connect"]]
    /\ UNCHANGED <<db, conns, table, txnQueue, iterVars>>

\* Mutant of Close: closing also drops the stored entries.
CloseDroppingEntries ==
    /\ IF db # NoConn
       THEN /\ conns' = [conns EXCEPT ![db] = "none"]
            /\ db' = NoConn
            /\ table' = EmptyTable
       ELSE UNCHANGED <<db, conns, table>>
    /\ UNCHANGED <<op, txnQueue, iterVars>>

\* Mutant of Close: the connection is closed but the reference is kept.
CloseKeepingReference ==
    /\ IF db # NoConn
       THEN /\ conns' = [conns EXCEPT ![db] = "none"]
            /\ UNCHANGED db
       ELSE UNCHANGED <<db, conns>>
    /\ UNCHANGED <<table, op, txnQueue, iterVars>>

\* close(): `if (db) { db.close(); db = undefined; }`
Close ==
    /\ IF db # NoConn
       THEN /\ conns' = [conns EXCEPT ![db] = "none"]
            /\ db' = NoConn
       ELSE UNCHANGED <<db, conns>>
    /\ UNCHANGED <<table, op, txnQueue, iterVars>>

\* A settled call is handed back to its caller; the slot is free again.
Return(t) ==
    /\ op[t].pc = "finished"
    /\ op' = [op EXCEPT ![t] = IdleOp]
    /\ UNCHANGED <<db, conns, table, txnQueue, iterVars>>

----------------------------------------------------------------------------
\* The async iterator: next() returns { done: true, value: undefined }.
ReturnDone(t, queue) ==
    /\ op' = [op EXCEPT ![t] = [@ EXCEPT !.pc = "finished", !.via = "next",
                                          !.promise = "resolved",
                                          !.result = DoneResult]]
    /\ itDone' = TRUE
    /\ txnQueue' = queue
    /\ UNCHANGED itOut

\* next() once allKeys is set: the index test, `allKeys[index++]`, `if (key)`.
Advance(t, list, queue) ==
    IF index >= Len(list)
    THEN /\ ReturnDone(t, queue)
         /\ index' = index
    ELSE LET key == list[index + 1]
         IN  /\ index' = index + 1
             /\ IF Truthy(key)
                THEN /\ BeginOp(t, "getItem", key, Absent, "next", queue)
                     /\ UNCHANGED <<itOut, itDone>>
                ELSE ReturnDone(t, queue)

\* A consumer calls next() on the iterator.
InvokeNext(t) ==
    /\ FirstFree(t)
    /\ IF allKeys.null
       THEN /\ BeginOp(t, "keys", NoKey, Absent, "next", txnQueue)
            /\ UNCHANGED iterVars
       ELSE /\ Advance(t, allKeys.list, txnQueue)
            /\ UNCHANGED allKeys
    /\ UNCHANGED <<db, conns, table>>

----------------------------------------------------------------------------
\* The request of slot t emits success.
RequestSuccess(t) ==
    /\ op[t].pc = "active"
    /\ CanRun(t)
    /\ LET o == op[t]
           r == RequestResult(o.kind, o.key, table)
           q == Dequeue(t, txnQueue)
       IN  CASE o.kind \in ReadKinds /\ o.via = "user" ->
                  \* a read: nothing is left to commit, the transaction ends
                  /\ op' = [op EXCEPT ![t] =
                              [@ EXCEPT !.pc = "finished", !.txn = "complete",
                                        !.promise = IF ResolvesOnRequestSuccess(o.kind)
                                                    THEN "resolved" ELSE @,
                                        !.result = IF ResolvesOnRequestSuccess(o.kind)
                                                   THEN r ELSE @]]
                  /\ txnQueue' = q
                  /\ UNCHANGED iterVars
             [] o.kind = "keys" /\ o.via = "next" ->
                  \* `allKeys = await keys()`, then the rest of next()
                  /\ allKeys' = [null |-> FALSE, list |-> r.keys]
                  /\ Advance(t, r.keys, q)
             [] o.kind = "getItem" /\ o.via = "next" ->
                  \* `return { done: false, value: [key, value] }`
                  /\ op' = [op EXCEPT ![t] =
                              [@ EXCEPT !.pc = "finished", !.txn = "complete",
                                        !.promise = "resolved",
                                        !.result = PairResult(o.key, r.value)]]
                  /\ itOut' = Append(itOut, <<o.key, r.value>>)
                  /\ txnQueue' = q
                  /\ UNCHANGED <<allKeys, index, itDone>>
             [] OTHER ->
                  \* a write: the transaction is still to commit
                  /\ op' = [op EXCEPT ![t] =
                              [@ EXCEPT !.pc = "reqdone",
                                        !.promise = IF ResolvesOnRequestSuccess(o.kind)
                                                    THEN "resolved" ELSE @,
                                        !.result = IF ResolvesOnRequestSuccess(o.kind)
                                                   THEN VoidResult ELSE @]]
                  /\ UNCHANGED <<txnQueue, iterVars>>
    /\ UNCHANGED <<db, conns, table>>

\* Mutant of RequestError: the failure also drops the held connection.
RequestErrorDroppingConnection(t) ==
    /\ op[t].pc = "active"
    /\ CanRun(t)
    /\ op' = [op EXCEPT ![t] = [@ EXCEPT !.pc = "finished", !.txn = "aborted",
                                          !.promise = "rejected",
                                          !.error = "request"]]
    /\ txnQueue' = Dequeue(t, txnQueue)
    /\ db' = NoConn
    /\ UNCHANGED <<conns, table, iterVars>>

\* The request of slot t emits error: `reject(request.error)`; the
\* transaction aborts.
RequestError(t) ==
    /\ op[t].pc = "active"
    /\ CanRun(t)
    /\ op' = [op EXCEPT ![t] = [@ EXCEPT !.pc = "finished", !.txn = "aborted",
                                          !.promise = "rejected",
                                          !.error = "request"]]
    /\ txnQueue' = Dequeue(t, txnQueue)
    /\ UNCHANGED <<db, conns, table, iterVars>>

\* The write transaction of slot t emits complete: its change is committed.
TransactionComplete(t) ==
    /\ op[t].pc = "reqdone"
    /\ LET o == op[t]
           resolves == o.promise = "pending" /\ ResolvesOnTransactionComplete(o.kind)
       IN  /\ table' = Commit(o.kind, o.key, o.val, table)
           /\ op' = [op EXCEPT ![t] =
                       [@ EXCEPT !.pc = "finished", !.txn = "complete",
                                 !.promise = IF resolves THEN "resolved" ELSE @,
                                 !.result = IF resolves THEN VoidResult ELSE @]]
    /\ txnQueue' = Dequeue(t, txnQueue)
    /\ UNCHANGED <<db, conns, iterVars>>

\* The write transaction of slot t emits error after its request succeeded:
\* nothing is committed.
TransactionError(t) ==
    /\ op[t].pc = "reqdone"
    /\ LET o == op[t]
           rejects == o.promise = "pending" /\ ListensTransactionError(o.kind)
       IN  op' = [op EXCEPT ![t] =
                    [@ EXCEPT !.pc = "finished", !.txn = "failed",
                              !.promise = IF rejects THEN "rejected" ELSE @,
                              !.error = IF rejects THEN "transaction" ELSE @]]
    /\ txnQueue' = Dequeue(t, txnQueue)
    /\ UNCHANGED <<db, conns, table, iterVars>>

----------------------------------------------------------------------------
\* Every promise handed out so far has settled and been consumed: a caller
\* that awaits each call before making the next is at such a point whenever
\* it acts.  A transaction may still be live behind a settled promise.
AllSettled ==
    \A t \in Slots : op[t].pc = "idle" \/ (op[t].pc = "reqdone" /\ op[t].promise # "pending")

\* The bookkeeping of a caller that awaits every call: a resolved write
\* promise updates the map the caller expects; close() records the stored
\* entries, and the record lapses when a write commits.
Observe ==
    /\ shadow' =
          IF \E t \in Slots : op[t].kind \in WriteKinds /\ op[t].promise = "pending"
                               /\ op'[t].promise = "resolved"
          THEN LET t == CHOOSE u \in Slots : op[u].kind \in WriteKinds
                                              /\ op[u].promise = "pending"
                                              /\ op'[u].promise = "resolved"
               IN  Commit(op[t].kind, op[t].key, op[t].val, shadow)
          ELSE shadow
    /\ atClose' =
          IF db # NoConn /\ db' = NoConn THEN [valid |-> TRUE, entries |-> table]
          ELSE IF \E t \in Slots : op[t].pc = "reqdone" /\ op'[t].txn = "complete"
               THEN NoSnapshot
               ELSE atClose
    /\ UNCHANGED setupVars

\* Any interleaving of calls, close() and engine events; the calls use one
\* key and one value.
Next ==
    \/ \E t \in Slots : InvokeAny(t, {"a"}, {"v1"}) /\ UNCHANGED <<ghostVars, setupVars>>
    \/ Close /\ UNCHANGED <<ghostVars, setupVars>>
    \/ \E t \in Slots : OpenSuccess(t) /\ UNCHANGED <<ghostVars, setupVars>>
    \/ \E t \in Slots : OpenError(t) /\ UNCHANGED <<ghostVars, setupVars>>
    \/ \E t \in Slots : RequestSuccess(t) /\ UNCHANGED <<ghostVars, setupVars>>
    \/ \E t \in Slots : RequestError(t) /\ UNCHANGED <<ghostVars, setupVars>>
    \/ \E t \in Slots : TransactionComplete(t) /\ UNCHANGED <<ghostVars, setupVars>>
    \/ \E t \in Slots : TransactionError(t) /\ UNCHANGED <<ghostVars, setupVars>>
    \/ \E t \in Slots : Return(t) /\ UNCHANGED <<ghostVars, setupVars>>

Spec == Init /\ [][Next]_vars

\* The engine event slot t waits for: the outcome of its open request, of its
\* request, or of its transaction.
EngineEvent(t) ==
    /\ \/ OpenSuccess(t) \/ OpenError(t)
       \/ RequestSuccess(t) \/ RequestError(t)
       \/ TransactionComplete(t) \/ TransactionError(t)
    /\ UNCHANGED <<ghostVars, setupVars>>

\* Up to MaxOps calls in any interleaving with close() and the engine's
\* events, on an engine that delivers the outcome of every open request,
\* request and transaction it has accepted.
FairNext ==
    \/ \E t \in Slots : InvokeAny(t, {"a"}, {"v1"}) /\ UNCHANGED <<ghostVars, setupVars>>
    \/ Close /\ UNCHANGED <<ghostVars, setupVars>>
    \/ \E t \in Slots : EngineEvent(t)

FairSpec == Init /\ [][FairNext]_vars /\ \A t \in Slots : WF_vars(EngineEvent(t))

\* A caller that awaits every call before the next call or close().
SeqNext ==
    \/ \E t \in Slots : AllSettled /\ InvokeAny(t, Keys, Values) /\ Observe
    \/ AllSettled /\ Close /\ Observe
    \/ \E t \in Slots : OpenSuccess(t) /\ Observe
    \/ \E t \in Slots : OpenError(t) /\ Observe
    \/ \E t \in Slots : RequestSuccess(t) /\ Observe
    \/ \E t \in Slots : RequestError(t) /\ Observe
    \/ \E t \in Slots : TransactionComplete(t) /\ Observe
    \/ \E t \in Slots : TransactionError(t) /\ Observe
    \/ \E t \in Slots : Return(t) /\ Observe

SeqSpec == Init /\ [][SeqNext]_vars

\* A for-await consumer of a fresh iterator over any stored content, with no
\* other caller and an engine that reports no error.
IterInit ==
    /\ table \in [Keys -> Values \cup {Absent}]
    /\ shadow = table
    /\ atClose = NoSnapshot
    /\ db = NoConn
    /\ conns = [c \in ConnIds |-> "none"]
    /\ op = [t \in Slots |-> IdleOp]
    /\ txnQueue = <<>>
    /\ allKeys = [null |-> TRUE, list |-> <<>>]
    /\ index = 0
    /\ itOut = <<>>
    /\ itDone = FALSE
    /\ DefaultInstance

IterNext ==
    \/ \E t \in Slots : AllSettled /\ InvokeNext(t) /\ UNCHANGED <<ghostVars, setupVars>>
    \/ \E t \in Slots : OpenSuccess(t) /\ UNCHANGED <<ghostVars, setupVars>>
    \/ \E t \in Slots : RequestSuccess(t) /\ UNCHANGED <<ghostVars, setupVars>>
    \/ \E t \in Slots : Return(t) /\ UNCHANGED <<ghostVars, setupVars>>

IterSpec == IterInit /\ [][IterNext]_vars

\* A consumer that calls next() without awaiting the previous one, beside a
\* caller that writes, on an instance that already holds its connection and
\* an engine that reports no error.  The key "" is left out: stored and
\* written keys are "a" and "b".
ConcIterInit ==
    /\ table \in {tbl \in [Keys -> {"v1", Absent}] : tbl[""] = Absent}
    /\ shadow = table
    /\ atClose = NoSnapshot
    /\ db = 1
    /\ conns = [c \in ConnIds |-> IF c = 1 THEN "open" ELSE "none"]
    /\ op = [t \in Slots |-> IdleOp]
    /\ txnQueue = <<>>
    /\ allKeys = [null |-> TRUE, list |-> <<>>]
    /\ index = 0
    /\ itOut = <<>>
    /\ itDone = FALSE
    /\ DefaultInstance

\* setItem, removeItem or clear by the other caller.
InvokeWrite(t) ==
    \E kind \in WriteKinds : \E k \in KeyArgs(kind, {"b"}) : \E v \in ValArgs(kind, {"v1"}) :
        Invoke(t, kind, k, v)

ConcIterNext ==
    \/ \E t \in Slots : InvokeNext(t) /\ UNCHANGED <<ghostVars, setupVars>>
    \/ \E t \in Slots : InvokeWrite(t) /\ UNCHANGED <<ghostVars, setupVars>>
    \/ \E t \in Slots : RequestSuccess(t) /\ UNCHANGED <<ghostVars, setupVars>>
    \/ \E t \in Slots : TransactionComplete(t) /\ UNCHANGED <<ghostVars, setupVars>>
    \/ \E t \in Slots : Return(t) /\ UNCHANGED <<ghostVars, setupVars>>

ConcIterSpec == ConcIterInit /\ [][ConcIterNext]_vars

----------------------------------------------------------------------------
\* Construction and the first connect, over any argument and any database
\* the engine may already hold under the configured name.
MaxVersion == 2
NameArgs == {NoValue, Undefined, Str(""), Str("db"), Whole(7)}
VersionArgs == {NoValue, Undefined, Str("1"), Whole(0), Whole(1), Num(15), Whole(2)}
TableArgs == {NoValue, Str(""), Str("kv"), Str("t")}
StoredStates ==
    {NoDatabase} \cup
    {[version |-> v, tables |-> tb] :
        v \in 1..MaxVersion, tb \in [TableNames -> {"none", "filled"}]}

storageVars == <<db, conns, table, op, txnQueue, iterVars, ghostVars>>

\* createInstance(options): merge with the defaults, validate, or throw.
CreateInstance ==
    /\ instance = "none"
    /\ LET merged == ObjectAssign(defaultOptions, options)
       IN  /\ config' = merged
           /\ instance' = IF Validate(merged) = "ok" THEN "created" ELSE Validate(merged)
    /\ UNCHANGED <<options, request, stored, scope>>

\* connect(config): `indexedDB.open(options.databaseName, options.databaseVersion)`
Connect ==
    /\ instance = "created"
    /\ request.state = "none"
    /\ request' = [state |-> "pending", name |-> config.databaseName,
                   version |-> config.databaseVersion, error |-> "none"]
    /\ UNCHANGED <<options, config, instance, stored, scope>>

\* The version the engine opens: open() takes an unsigned long long, a
\* fraction is dropped.
EngineVersion(v) == v.tenths \div 10

\* The engine emits upgradeneeded (the database is new or older than asked
\* for) and the listener runs `db.createObjectStore(options.tableName, {})`,
\* which throws when the store exists: the upgrade is then aborted, the
\* database stays as it was and the open request fails.
UpgradeNeeded ==
    /\ request.state = "pending"
    /\ stored.version < EngineVersion(request.version)
    /\ LET name == config.tableName.str
       IN  IF stored.tables[name] # "none"
           THEN /\ request' = [request EXCEPT !.state = "error", !.error = "AbortError"]
                /\ UNCHANGED stored
           ELSE /\ request' = [request EXCEPT !.state = "upgraded"]
                /\ stored' = [version |-> EngineVersion(request.version),
                              tables |-> [stored.tables EXCEPT ![name] = "empty"]]
    /\ UNCHANGED <<options, config, instance, scope>>

\* The open request emits success: after the upgrade, or at once when the
\* database has the version asked for.
ConnectSuccess ==
    /\ \/ request.state = "upgraded"
       \/ request.state = "pending" /\ stored.version = EngineVersion(request.version)
    /\ request' = [request EXCEPT !.state = "success"]
    /\ UNCHANGED <<options, config, instance, stored, scope>>

\* The open request emits error: the database is newer than asked for.
ConnectError ==
    /\ request.state = "pending"
    /\ stored.version > EngineVersion(request.version)
    /\ request' = [request EXCEPT !.state = "error", !.error = "VersionError"]
    /\ UNCHANGED <<options, config, instance, stored, scope>>

\* An operation opens its transaction: `db.transaction([config.tableName], mode)`
Transaction ==
    /\ request.state = "success"
    /\ scope = NoScope
    /\ scope' = {config.tableName.str}
    /\ UNCHANGED <<options, config, instance, request, stored>>

ConfigInit ==
    /\ options \in [databaseName : NameArgs, databaseVersion : VersionArgs,
                     tableName : TableArgs]
    /\ config = NoConfig
    /\ instance = "none"
    /\ request = NoRequest
    /\ stored \in StoredStates
    /\ scope = NoScope
    /\ db = NoConn
    /\ conns = [c \in ConnIds |-> "none"]
    /\ table = EmptyTable
    /\ op = [t \in Slots |-> IdleOp]
    /\ txnQueue = <<>>
    /\ shadow = EmptyTable
    /\ atClose = NoSnapshot
    /\ allKeys = [null |-> TRUE, list |-> <<>>]
    /\ index = 0
    /\ itOut = <<>>
    /\ itDone = FALSE

ConfigNext ==
    \/ CreateInstance /\ UNCHANGED storageVars
    \/ Connect /\ UNCHANGED storageVars
    \/ UpgradeNeeded /\ UNCHANGED storageVars
    \/ ConnectSuccess /\ UNCHANGED storageVars
    \/ ConnectError /\ UNCHANGED storageVars
    \/ Transaction /\ UNCHANGED storageVars

ConfigSpec == ConfigInit /\ [][ConfigNext]_vars

----------------------------------------------------------------------------
\* Vocabulary of the properties.
UserOp(o) == o.via = "user"
Resolved(o) == o.pc # "idle" /\ o.promise = "resolved"
Rejected(o) == o.pc # "idle" /\ o.promise = "rejected"
ResolvedRead(o) == UserOp(o) /\ o.kind \in ReadKinds /\ Resolved(o)

\* The [key, value] pairs of a table in ascending key order.
Pairs(tbl) == [i \in 1..Len(getAllKeys(tbl)) |-> <<getAllKeys(tbl)[i], tbl[getAllKeys(tbl)[i]]>>]
IsPrefix(a, b) == Len(a) <= Len(b) /\ \A i \in 1..Len(a) : a[i] = b[i]

\* C1: while no connection is held, calls made before the first open
\* completes share one open request: at most one open request is in flight.
C1_SingleOpenRequest == OpensInFlight <= 1

\* C2: every connection the instance has opened is either the held one or
\* closed, so at most one connection is open at the engine: a connection
\* that is open is the held one.
C2_AtMostOneOpenConnection == \A c \in ConnIds : conns[c] = "open" => db = c

\* C3: for a caller that awaits every call, each read resolves with what the
\* map built from the resolved setItem / removeItem / clear calls holds:
\* getItem the latest value or undefined, size the number of keys, keys the
\* present keys.
C3_BehavesAsMap ==
    \A t \in Slots :
        ResolvedRead(op[t]) => op[t].result = RequestResult(op[t].kind, op[t].key, shadow)

\* C4: after close(), as long as no write has committed since, the stored
\* entries are the ones stored at close(), a connection held again is one
\* opened anew, and every read resolves, on such a connection, with exactly
\* the entries stored at close().
C4_CloseThenReuse ==
    atClose.valid =>
        /\ table = atClose.entries
        /\ db # NoConn => conns[db] = "open"
        /\ \A t \in Slots :
              ResolvedRead(op[t]) =>
                  /\ db # NoConn
                  /\ op[t].result = RequestResult(op[t].kind, op[t].key, atClose.entries)

\* Witness of C4: two entries stored, close(), then size() resolved with 2 on
\* a connection opened after the close.
C4_Witness ==
    /\ atClose.valid
    /\ db # NoConn
    /\ \E t \in Slots :
          /\ ResolvedRead(op[t])
          /\ op[t].kind = "size"
          /\ op[t].result.count = 2

\* C5: a resolved setItem or removeItem promise means its own transaction has
\* emitted complete; request success alone never resolves it.
C5_WriteResolvesOnComplete ==
    \A t \in Slots :
        (op[t].kind \in {"setItem", "removeItem"} /\ Resolved(op[t])) => op[t].txn = "complete"

\* Witness of C5: one write whose request succeeded is still pending while
\* another write has resolved after its transaction completed.
C5_Witness ==
    \E t, u \in Slots :
        /\ op[t].kind = "setItem" /\ op[t].pc = "reqdone" /\ op[t].promise = "pending"
        /\ op[u].kind \in {"setItem", "removeItem"} /\ Resolved(op[u]) /\ op[u].txn = "complete"

\* C6: a resolved clear() promise means clear's transaction has emitted
\* complete.
C6_ClearResolvesOnComplete ==
    \A t \in Slots : (op[t].kind = "clear" /\ Resolved(op[t])) => op[t].txn = "complete"

\* C7: for every write operation a request error rejects the promise with the
\* request's error, and a transaction error not preceded by a request error
\* rejects it with the transaction's error.
C7_WriteErrorsReject ==
    \A t \in Slots :
        op[t].kind \in WriteKinds =>
            /\ op[t].txn = "aborted" => Rejected(op[t]) /\ op[t].error = "request"
            /\ op[t].txn = "failed" => Rejected(op[t]) /\ op[t].error = "transaction"

\* C8: a fresh enumeration yields the stored entries in ascending key order,
\* each with its stored value, and signals done only after the last one.
C8_EnumerationComplete ==
    /\ IsPrefix(itOut, Pairs(table))
    /\ itDone => itOut = Pairs(table)

\* C9: once next() has returned done, no later step yields a pair, starts a
\* keys() or getItem() request, or resolves a next() with anything but done.
C9_StaysExhausted ==
    [][itDone =>
          /\ itOut' = itOut
          /\ \A t \in Slots :
                /\ op'[t].pc \in {"connecting", "active"} => op'[t] = op[t]
                /\ (~Resolved(op[t]) /\ Resolved(op'[t])) => op'[t].result = DoneResult]_vars

\* C10: a step of getItem, keys, size, or of removeItem of an absent key
\* leaves the stored entries unchanged; when the engine reports success
\* getItem of an absent key resolves with undefined and removeItem of an
\* absent key resolves.
C10_ReadsAndAbsentRemoveKeepEntries ==
    [][\A t \in Slots :
          (/\ UserOp(op[t])
           /\ op[t].pc \in {"connecting", "active", "reqdone"}
           /\ op'[t] # op[t]
           /\ \/ op[t].kind \in ReadKinds
              \/ op[t].kind = "removeItem" /\ ~IsPresent(table, op[t].key))
          => /\ table' = table
             /\ (op[t].kind = "getItem" /\ op'[t].txn = "complete" /\ ~IsPresent(table, op[t].key))
                   => Resolved(op'[t]) /\ op'[t].result = ValueResult(Absent)
             /\ (op[t].kind = "removeItem" /\ op'[t].txn = "complete")
                   => Resolved(op'[t]) /\ op'[t].result = VoidResult]_vars

\* Witness of C10: with entries stored, getItem of an absent key has resolved
\* with undefined.
C10_Witness ==
    /\ table # EmptyTable
    /\ \E t \in Slots :
          /\ ResolvedRead(op[t])
          /\ op[t].kind = "getItem"
          /\ ~IsPresent(table, op[t].key)
          /\ op[t].result = ValueResult(Absent)

\* C11: close() is one synchronous step and is idempotent: with a connection
\* held it closes that open connection at the engine, once, clears the
\* reference and touches nothing else; with none held it changes nothing; so
\* after any close() a second close() is a no-op.
C11_CloseIdempotent ==
    [][Close =>
          /\ db' = NoConn
          /\ db = NoConn => UNCHANGED vars
          /\ db # NoConn =>
                /\ conns[db] = "open"
                /\ conns' = [conns EXCEPT ![db] = "none"]
                /\ UNCHANGED <<table, op, txnQueue, iterVars>>]_vars

\* Witness of C11: close() has cleared the reference of a connection on which
\* a transaction is still live; a second close() would find none held.
C11_Witness ==
    /\ db = NoConn
    /\ \E t \in Slots : op[t].pc \in {"active", "reqdone"}

\* C12: when an open request fails, the call that issued it rejects with the
\* connect error (which names the database and its version) and no connection
\* is held afterwards; a call invoked with no connection held issues a new
\* open request.
C12_FailedOpenLeavesUnconnected ==
    [][\A t \in Slots :
          /\ (op[t].pc = "connecting" /\ op'[t].pc = "finished") =>
                /\ Rejected(op'[t])
                /\ op'[t].error = "connect"
                /\ db' = NoConn
          /\ (op[t].pc = "idle" /\ op'[t].pc # "idle" /\ db = NoConn) =>
                op'[t].pc = "connecting"]_vars

\* C13: createInstance throws, with no open request issued, exactly when the
\* merged configuration has a databaseName that is not a non-empty string, a
\* databaseVersion that is not an integer greater than 0, or a tableName that
\* is not a non-empty string; otherwise it returns an instance.
C13_InvalidConfigThrows ==
    instance # "none" =>
        /\ instance = "created" <=>
              /\ config.databaseName.type = "string" /\ config.databaseName.str # ""
              /\ config.databaseVersion.type = "number"
              /\ config.databaseVersion.tenths > 0
              /\ config.databaseVersion.tenths % 10 = 0
              /\ config.tableName.type = "string" /\ config.tableName.str # ""
        /\ instance # "created" => request.state = "none"

\* C14, as stated: a created instance has every field the argument leaves
\* unset from { databaseName: "app_storage", databaseVersion: 1, tableName:
\* "kv" } and every other field from the argument; the open request is given
\* exactly the configured name and version and the transaction exactly the
\* configured table.
C14_StatedDefaults ==
    instance = "created" =>
        /\ \A f \in Fields :
              config[f] = IF options[f].type = "absent"
                          THEN [databaseName |-> Str("app_storage"),
                                databaseVersion |-> Whole(1),
                                tableName |-> Str("kv")][f]
                          ELSE options[f]
        /\ request.state # "none" =>
              /\ request.name = config.databaseName
              /\ request.version = config.databaseVersion
        /\ scope # NoScope => scope = {config.tableName.str}

\* C14, amended: the same with the default databaseName "smonn_storage".
C14_SourceDefaults ==
    instance = "created" =>
        /\ \A f \in Fields :
              config[f] = IF options[f].type = "absent"
                          THEN [databaseName |-> Str("smonn_storage"),
                                databaseVersion |-> Whole(1),
                                tableName |-> Str("kv")][f]
                          ELSE options[f]
        /\ request.state # "none" =>
              /\ request.name = config.databaseName
              /\ request.version = config.databaseVersion
        /\ scope # NoScope => scope = {config.tableName.str}

\* Witness of C14: an instance created with only tableName: "t" has opened
\* the default database at the default version and a transaction on "t".
C14_Witness ==
    /\ instance = "created"
    /\ options = [NoConfig EXCEPT !.tableName = Str("t")]
    /\ request.state = "success"
    /\ request.name = Str("smonn_storage")
    /\ request.version = Whole(1)
    /\ scope = {"t"}

\* C15: on an engine that delivers the outcome of every open request, request
\* and transaction, the promise of every call that is pending is eventually
\* resolved or rejected.
C15_EveryPromiseSettles ==
    \A t \in Slots :
        (op[t].promise = "pending") ~> (op[t].promise \in {"resolved", "rejected"})

\* Witness of C15: of two calls that waited for their own open request, one
\* has resolved and the other has rejected.
C15_Witness ==
    \E t, u \in Slots :
        /\ Resolved(op[t]) /\ op[t].kind \in {"setItem", "removeItem"}
        /\ Rejected(op[u]) /\ op[u].error = "transaction"

\* C16: a sequence calls keys() once: next() starts a keys() call only while
\* no key list is cached and no keys() call of the sequence is outstanding;
\* and the keys yielded so far are the first keys of the one cached list,
\* whatever is written meanwhile.
C16_SingleKeySnapshot ==
    [][/\ \A t \in Slots :
             (op[t].pc = "idle" /\ op'[t].via = "next" /\ op'[t].kind = "keys") =>
                 /\ allKeys.null
                 /\ \A u \in Slots :
                       ~(op[u].pc # "idle" /\ op[u].via = "next" /\ op[u].kind = "keys")
       /\ IsPrefix([i \in 1..Len(itOut') |-> itOut'[i][1]], allKeys'.list)
       /\ ~allKeys.null => allKeys'.list = allKeys.list]_vars

\* C17: the held connection reference changes only in a step that completes
\* a connect or in close(); a call invoked while a connection is held issues
\* no open request, opens its transaction at once and leaves the reference
\* alone; the failure of a request or of a transaction leaves the reference
\* and the connections alone.
C17_ReferenceFrame ==
    [][/\ db' # db =>
             \/ db' = NoConn /\ conns' = [conns EXCEPT ![db] = "none"] /\ op' = op
             \/ \E t \in Slots : op[t].pc = "connecting" /\ op'[t].pc = "active"
       /\ \A t \in Slots :
             /\ (op[t].pc = "idle" /\ op'[t].pc # "idle" /\ db # NoConn) =>
                   /\ op'[t].pc = "active"
                   /\ OpensInFlight' = OpensInFlight
                   /\ db' = db
             /\ (op[t].txn = "live" /\ op'[t].txn \in {"aborted", "failed"}) =>
                   /\ db' = db
                   /\ conns' = conns]_vars

\* Witness of C17: after a failed request and a failed transaction, with the
\* connection still held, no open request is in flight.
C17_Witness ==
    /\ db # NoConn
    /\ OpensInFlight = 0
    /\ \E t, u \in Slots : op[t].txn = "aborted" /\ op[u].txn = "failed"

\* C18: when the open request meets an upgrade (the database is new or older
\* than the version asked for), the configured table is created if it does
\* not exist; if it exists the upgrade still goes through, to the version
\* asked for, and leaves the tables and their entries as they were.
C18_UpgradeKeepsExistingTable ==
    [][(/\ request.state = "pending"
        /\ request'.state # "pending"
        /\ stored.version < EngineVersion(request.version))
       => /\ request'.state = "upgraded"
          /\ stored'.version = EngineVersion(request.version)
          /\ stored'.tables =
                IF stored.tables[config.tableName.str] = "none"
                THEN [stored.tables EXCEPT ![config.tableName.str] = "empty"]
                ELSE stored.tables]_vars

\* C19: a call opens one transaction, when it starts or when its connect
\* completes, read-only for getItem, keys and size and read-write for
\* setItem, removeItem and clear, with one request in it; the engine's live
\* transactions are exactly those of the calls whose transaction is live; and
\* once a call's transaction or connect has ended, in failure or not, the
\* call does nothing more until it is handed back.
C19_OneTransactionPerCall ==
    [][\A t \in Slots :
          /\ (op[t].txn # "live" /\ op'[t].txn = "live") =>
                /\ op[t].txn = "none"
                /\ op[t].pc \in {"idle", "connecting"}
                /\ op'[t].pc = "active"
                /\ txnQueue' = Append(txnQueue, t)
                /\ Mode(op'[t].kind) = IF op'[t].kind \in {"getItem", "keys", "size"}
                                       THEN "readonly" ELSE "readwrite"
          /\ Len(SelectSeq(txnQueue', LAMBDA u : u = t)) = IF op'[t].txn = "live" THEN 1 ELSE 0
          /\ (op[t].pc = "active" /\ op'[t] # op[t]) => op'[t].pc \in {"reqdone", "finished"}
          /\ (op[t].pc = "finished" /\ op'[t] # op[t]) => op'[t] = IdleOp]_vars

\* Witness of C19: a getItem has its transaction live, alone at the engine,
\* beside a call whose request failed.
C19_Witness ==
    \E t, u \in Slots :
        /\ op[t].kind = "getItem" /\ op[t].pc = "active"
        /\ op[u].txn = "aborted" /\ op[u].pc = "finished"
        /\ txnQueue = <<t>>

\* C20: in every interleaving of calls, connect completions and close(), a
\* step in which a call opens its transaction ends with a connection held
\* that is open at the engine, and no call is ever rejected by the 'Database
\* connection was closed' assertion.
C20_TransactionOnOpenConnection ==
    [][\A t \in Slots :
          /\ (op[t].txn # "live" /\ op'[t].txn = "live") =>
                /\ db' # NoConn
                /\ conns'[db'] = "open"
          /\ op'[t].error # "closed"]_vars

\* Witness of C20: two connect completions have left two connections open,
\* the later one held, and a call has its transaction live, alone at the
\* engine.
C20_Witness ==
    /\ db # NoConn
    /\ ConnsOpen = 2
    /\ \E t \in Slots : op[t].pc = "active" /\ txnQueue = <<t>>

====
